---------------------------- MODULE Spec2Model ----------------------------
(***************************************************************************)
(* Two-stage bidirectional CVRP of src/pipeline/routes/google_or.py:       *)
(* GoogleORToolsClient.solve_bidirectional_cvrp, solve_cvrp and            *)
(* _parse_solution.  Python lists and DataFrames are sequences of rows;    *)
(* list positions are 0-based in the source and 1-based here (see At).     *)
(* All quantities are integers, so the astype(int) casts of solve_cvrp     *)
(* (lines 135-136) leave them as they are.                                 *)
(***************************************************************************)
EXTENDS Integers, Sequences, FiniteSets, TLC

(* ------------------------------ bounds --------------------------------- *)
\* number of non-depot locations of the input table
NumStops == 2
\* largest Daily_Pickup_Totes of a stop
MaxPickup == 2
\* largest Weekly_Dropoff_Totes of a stop
MaxDropoff == 2
\* largest num_vehicles of a SimulationParams
MaxVehicles == 2
\* largest vehicle_capacity of a SimulationParams
MaxCapacity == 4
\* largest min and max of a Range of an enumerated ParameterSweep
MaxParam == 3
\* largest step of a Range
MaxStep == 2
\* how many times one ParameterSweep is enumerated
MaxEnumerations == 2
\* clock ticks in one second: the clock is finer than the directory names
TicksPerSecond == 3
\* the clock reading at which compute_routes is no longer followed
MaxClock == 9
\* most routes of a routes.csv summarised by sensitivity_analysis
MaxRoutes == 2
\* largest Cumulative_Distance of a row of such a routes.csv
MaxDistance == 2
\* longest side, in millionths of a degree, of the small bounding boxes
MaxSide == 3
\* most pieces per axis asked of split_along_axes
MaxInto == 3

(* ------------------------------ inputs --------------------------------- *)
\* the depot is row 0 of the locations table
Depot == 0

PickupCol == "Daily_Pickup_Totes"
DropoffCol == "Weekly_Dropoff_Totes"
CapacityCol == "Capacity"

\* locations_df: one row per location (row i + 1 is location i), the two
\* demand columns; demands are never negative and the depot collects nothing
LocationTables ==
    { [r \in 1..(NumStops + 1) |->
          [Daily_Pickup_Totes   |-> IF r = 1 THEN 0 ELSE p[r],
           Weekly_Dropoff_Totes |-> d[r]]] :
        p \in [2..(NumStops + 1) -> 1..MaxPickup],
        d \in { f \in [1..(NumStops + 1) -> 0..MaxDropoff] : f[1] \in {0, 1} } }

\* distances_df: square, zero diagonal, not symmetric (row i + 1, column j + 1
\* is the distance from location i to location j); every off-diagonal entry
\* differs from the others, so an entry names its row and column
DistanceTables ==
    { [r \in 1..(NumStops + 1) |-> [c \in 1..(NumStops + 1) |->
          IF r = c THEN 0 ELSE s * ((NumStops + 1) * (r - 1) + c)]] : s \in {1, 3} }

\* SimulationParams (routes/common.py); runtime only bounds the search time
PickupParamSets ==
    [demand_column : {PickupCol},
     num_vehicles : 1..MaxVehicles,
     vehicle_capacity : {MaxCapacity - 1}]

ComboParamSets ==
    [demand_column : {CapacityCol, PickupCol},
     num_vehicles : 1..MaxVehicles,
     vehicle_capacity : {MaxCapacity - 1, MaxCapacity}]

(* ----------------------------- helpers --------------------------------- *)
\* Python's list[i], 0-based
At(list, i) == list[i + 1]

RECURSIVE SumSeq(_)
SumSeq(s) == IF s = <<>> THEN 0 ELSE s[1] + SumSeq(Tail(s))

\* the values of one column of a DataFrame, in row order
Column(df, col) == [r \in 1..Len(df) |-> df[r][col]]

\* an optional DataFrame: Python's None, or a list of rows
None == [some |-> FALSE, df |-> <<>>]
Some(df) == [some |-> TRUE, df |-> df]

\* str(n) for n >= 0, as the list of its decimal digits
RECURSIVE Str(_)
Str(n) ==
    LET digit == <<"0", "1", "2", "3", "4", "5", "6", "7", "8", "9">>
    IN  IF n < 10 THEN <<digit[n + 1]>> ELSE Str(n \div 10) \o <<digit[(n % 10) + 1]>>

(* ------------------- the routing solver (OR-Tools) --------------------- *)
\* solve_cvrp's data model
DataModel(locations_df, distances_df, num_vehicles, vehicle_capacity, demand_col) ==
    [distance_matrix |-> distances_df,
     demands |-> Column(locations_df, demand_col),
     num_vehicles |-> num_vehicles,
     vehicle_capacity |-> vehicle_capacity]

\* RoutingIndexManager(len(distance_matrix), num_vehicles, depot): the nodes
\* are 0 .. len(distance_matrix) - 1 and node 0 is the depot
Nodes(data) == 0..(Len(data.distance_matrix) - 1)

\* the demand callback reads data["demands"][node]: a node beyond the list
\* raises IndexError
DemandLookupFails(data) == Len(data.distance_matrix) > Len(data.demands)

RECURSIVE Perms(_)
Perms(S) ==
    IF S = {} THEN {<<>>}
    ELSE UNION { { <<x>> \o p : p \in Perms(S \ {x}) } : x \in S }

RECURSIVE Splits(_, _)
Splits(p, n) ==
    IF n = 1 THEN {<<p>>}
    ELSE UNION { { <<SubSeq(p, 1, k)>> \o rest :
                     rest \in Splits(SubSeq(p, k + 1, Len(p)), n - 1) } :
                 k \in 0..Len(p) }

\* every way to visit each non-depot node once with num_vehicles vehicles,
\* each route starting and ending at the depot
Assignments(data) ==
    UNION { { [v \in 1..data.num_vehicles |-> <<Depot>> \o segs[v] \o <<Depot>>] :
                segs \in Splits(p, data.num_vehicles) } :
            p \in Perms(Nodes(data) \ {Depot}) }

\* the "Capacity" dimension: cumul(start) = 0, cumul(next) = cumul + demand
\* of the node left (slack_max = 0), and 0 <= cumul <= vehicle capacity at
\* every node of the route, the end node included
RECURSIVE CumulAfter(_, _, _)
CumulAfter(data, route, t) ==
    IF t = 0 THEN 0
    ELSE CumulAfter(data, route, t - 1) + At(data.demands, route[t])

WithinCapacity(data, route) ==
    \A t \in 1..(Len(route) - 1) :
        LET cumul == CumulAfter(data, route, t)
        IN  cumul >= 0 /\ cumul <= data.vehicle_capacity

NoSolution == [found |-> FALSE, routes |-> <<>>]

FeasibleAssignments(data) ==
    { a \in Assignments(data) :
        \A v \in 1..data.num_vehicles : WithinCapacity(data, a[v]) }

\* routing.SolveWithParameters: any assignment that meets the capacity
\* dimension, or no solution (none exists, or none was found in the time
\* limit)
SolveWithParameters(data) ==
    {NoSolution} \cup { [found |-> TRUE, routes |-> a] : a \in FeasibleAssignments(data) }

\* the arc cost of an assignment: the distance driven by all vehicles
RECURSIVE RouteCost(_, _)
RouteCost(data, route) ==
    IF Len(route) < 2 THEN 0
    ELSE At(At(data.distance_matrix, route[1]), route[2]) + RouteCost(data, Tail(route))

AssignmentCost(data, a) ==
    SumSeq([v \in 1..data.num_vehicles |-> RouteCost(data, a[v])])

\* a solver that answers the same problem with the same routes: a cheapest
\* feasible assignment, always the same one, or no solution when none exists
DeterministicSolve(data) ==
    LET feasible == FeasibleAssignments(data)
    IN  IF feasible = {} THEN NoSolution
        ELSE [found |-> TRUE,
              routes |-> CHOOSE a \in feasible :
                            \A b \in feasible :
                                AssignmentCost(data, a) <= AssignmentCost(data, b)]

(* ---------------------------- solve_cvrp ------------------------------- *)
\* a variant of RouteLoads in which the closing depot adds its demand again
RouteLoads_EndAddsDemand(data, route) ==
    [t \in 1..Len(route) |-> CumulAfter(data, route, t)]

\* _parse_solution, one vehicle: the load after each stop (the end node adds
\* nothing) and the distance driven on arrival at each stop
RouteLoads(data, route) ==
    [t \in 1..Len(route) |->
        IF t < Len(route) THEN CumulAfter(data, route, t)
        ELSE CumulAfter(data, route, Len(route) - 1)]

RouteDistances(data, route) ==
    [t \in 1..Len(route) |->
        SumSeq([j \in 1..(t - 1) |->
                  At(At(data.distance_matrix, route[j]), route[j + 1])])]

parse_solution(data, solution) ==
    [routes |-> solution.routes,
     distances |-> [v \in 1..data.num_vehicles |-> RouteDistances(data, solution.routes[v])],
     loads |-> [v \in 1..data.num_vehicles |-> RouteLoads(data, solution.routes[v])]]

\* locations_df.loc[node] with the route columns added; reset_index() names
\* the old index "index", or "level_0" (dropped) when the table already has
\* an "index" column, which then becomes Original_Index
RouteRow(locations_df, node, i, stop, distance, load) ==
    LET row == At(locations_df, node)
        base == [Original_Index |-> IF "index" \in DOMAIN row THEN row.index ELSE node,
                 Daily_Pickup_Totes |-> row.Daily_Pickup_Totes,
                 Weekly_Dropoff_Totes |-> row.Weekly_Dropoff_Totes,
                 Route |-> i,
                 Stop |-> stop,
                 Cumulative_Distance |-> distance,
                 Truck_Load |-> load]
    IN  IF "Capacity" \in DOMAIN row
        THEN [c \in DOMAIN base \cup {"Capacity"} |->
                 IF c = "Capacity" THEN row.Capacity ELSE base[c]]
        ELSE base

RECURSIVE Concat(_)
Concat(dfs) == IF dfs = <<>> THEN <<>> ELSE dfs[1] \o Concat(Tail(dfs))

\* solve_cvrp once the solver has answered: None without a solution, else
\* the routes as one table, route i - 1 being vehicle i's
solve_cvrp(locations_df, data, solution) ==
    IF ~solution.found THEN None
    ELSE LET parsed == parse_solution(data, solution)
             route_df(v) ==
                 [t \in 1..Len(parsed.routes[v]) |->
                     RouteRow(locations_df, parsed.routes[v][t], v - 1, t,
                              parsed.distances[v][t], parsed.loads[v][t])]
         IN  Some(Concat([v \in 1..data.num_vehicles |-> route_df(v)]))

(* ---------------------- the stage-2 sub-problem ------------------------ *)
\* pickups_only_df.groupby("Route"): the route keys in ascending order, and
\* one route's rows
RECURSIVE Ascending(_)
Ascending(S) ==
    IF S = {} THEN <<>>
    ELSE LET m == CHOOSE x \in S : \A y \in S : x <= y
         IN  <<m>> \o Ascending(S \ {m})

\* a variant of RouteKeys that walks the rows of the table, so that a
\* route's key comes once per stop
RouteKeys_PerRow(df) == [r \in 1..Len(df) |-> df[r].Route]

\* pickup_routes.groups: each route key once
RouteKeys(df) == Ascending({ df[r].Route : r \in 1..Len(df) })

GetGroup(df, grp) == SelectSeq(df, LAMBDA row : row.Route = grp)

\* a variant of PickupIdx that leaves out the last stop as well as the
\* closing depot
PickupIdx_WithoutLastStop(pickup_df) ==
    [r \in 1..(Len(pickup_df) - 2) |-> pickup_df[r].Original_Index]

\* pickup_df["Original_Index"][:-1]
PickupIdx(pickup_df) ==
    [r \in 1..(Len(pickup_df) - 1) |-> pickup_df[r].Original_Index]

\* a variant of DepotCapacity with the sign of a delivery
DepotCapacity_Negated(locs) == (-1) * SumSeq(Column(locs, DropoffCol))

\* a variant of DepotCapacity without the load taken on at the depot
DepotCapacity_PickupOnly(locs) == locs[1].Daily_Pickup_Totes

\* locations_df.loc[pickup_idx] with the "Capacity" column: the route's
\* total of Weekly_Dropoff_Totes for the first row, Daily_Pickup_Totes for
\* the others
DepotCapacity(locs) == SumSeq(Column(locs, DropoffCol))

PickupLocs(locations_df, pickup_idx) ==
    LET locs == [r \in 1..Len(pickup_idx) |-> At(locations_df, pickup_idx[r])]
    IN  [r \in 1..Len(pickup_idx) |->
            [index |-> pickup_idx[r],
             Daily_Pickup_Totes |-> locs[r].Daily_Pickup_Totes,
             Weekly_Dropoff_Totes |-> locs[r].Weekly_Dropoff_Totes,
             Capacity |-> IF r = 1 THEN DepotCapacity(locs)
                          ELSE locs[r].Daily_Pickup_Totes]]

\* pickup_locs_df.copy().query("`Weekly_Dropoff_Totes` > 0") with
\* Capacity = Weekly_Dropoff_Totes * -1
DropoffLocs(pickup_locs_df) ==
    LET sites == SelectSeq(pickup_locs_df, LAMBDA row : row.Weekly_Dropoff_Totes > 0)
    IN  [r \in 1..Len(sites) |->
            [sites[r] EXCEPT !.Capacity = sites[r].Weekly_Dropoff_Totes * (-1)]]

CombinedLocs(locations_df, pickup_idx) ==
    LET pickup_locs_df == PickupLocs(locations_df, pickup_idx)
    IN  pickup_locs_df \o DropoffLocs(pickup_locs_df)

\* pickup_df.query("`Weekly_Dropoff_Totes` > 0")["Original_Index"]: taken
\* from the whole route, its closing depot row included
DropoffIdx(pickup_df) ==
    LET sites == SelectSeq(pickup_df, LAMBDA row : row.Weekly_Dropoff_Totes > 0)
    IN  [r \in 1..Len(sites) |-> sites[r].Original_Index]

\* list[-n:]: the last n items; the whole list when n = 0 or n >= len(list)
LastItems(list, n) ==
    IF n = 0 \/ n >= Len(list) THEN list
    ELSE SubSeq(list, Len(list) - n + 1, Len(list))

\* the rows are the route's stops and then the dropoff sites; the columns
\* are the route's stops and then the last num_dropoff_sites of them
CombinedDist(distances_df, pickup_idx, dropoff_idx) ==
    LET rows == pickup_idx \o dropoff_idx
        cols == pickup_idx \o LastItems(pickup_idx, Len(dropoff_idx))
    IN  [r \in 1..Len(rows) |-> [c \in 1..Len(cols) |->
            At(At(distances_df, rows[r]), cols[c])]]

\* a variant of Tag without the stage-1 key
Tag_WithoutPrefix(grp, route) == Str(route)

\* "{grp}-{route}"
Tag(grp, route) == Str(grp) \o <<"-">> \o Str(route)

(* ------------------ parameter sweeps (routes/common.py) ---------------- *)
\* Python's range(start, stop, step) as a list, step # 0: from start in
\* steps of step while below stop (above stop for a negative step)
RECURSIVE PyRange(_, _, _)
PyRange(start, stop, step) ==
    IF (step > 0 /\ start < stop) \/ (step < 0 /\ start > stop)
    THEN <<start>> \o PyRange(start + step, stop, step)
    ELSE <<>>

\* the dataclass Range
Range(min, max, step) == [min |-> min, max |-> max, step |-> step]

\* Range.values: list(range(self.min, self.max + self.step, self.step))
values(r) == PyRange(r.min, r.max + r.step, r.step)

\* the dataclass SimulationParams
SimulationParams(demand_column, num_vehicles, vehicle_capacity, runtime) ==
    [demand_column |-> demand_column, num_vehicles |-> num_vehicles,
     vehicle_capacity |-> vehicle_capacity, runtime |-> runtime]

\* the dataclass ParameterSweep
ParameterSweep(name, demand_column, num_vehicles, vehicle_capacity, simulation_runtime) ==
    [name |-> name, demand_column |-> demand_column, num_vehicles |-> num_vehicles,
     vehicle_capacity |-> vehicle_capacity, simulation_runtime |-> simulation_runtime]

\* a variant of product that pairs the lists item by item, as zip does
product_Zip(a, b, c) ==
    LET n == CHOOSE m \in {Len(a), Len(b), Len(c)} :
                 m <= Len(a) /\ m <= Len(b) /\ m <= Len(c)
    IN  [k \in 1..n |-> <<a[k], b[k], c[k]>>]

\* a variant of product in which the first list varies fastest
product_FirstFastest(a, b, c) ==
    Concat([l \in 1..Len(c) |-> Concat([j \in 1..Len(b) |->
        [i \in 1..Len(a) |-> <<a[i], b[j], c[l]>>]])])

\* itertools.product(a, b, c): nested loops, the rightmost list innermost
product(a, b, c) ==
    Concat([i \in 1..Len(a) |-> Concat([j \in 1..Len(b) |->
        [l \in 1..Len(c) |-> <<a[i], b[j], c[l]>>]])])

\* ParameterSweep.yield_simulation_params: everything the generator yields,
\* in order
yield_simulation_params(sweep) ==
    LET simulation_runtimes == values(sweep.simulation_runtime)
        vehicle_counts == values(sweep.num_vehicles)
        vehicle_capacities == values(sweep.vehicle_capacity)
        combos == product(simulation_runtimes, vehicle_counts, vehicle_capacities)
    IN  [k \in 1..Len(combos) |->
            SimulationParams(sweep.demand_column, combos[k][2], combos[k][3], combos[k][1])]

\* the Ranges and ParameterSweeps enumerated: step >= 1 and min <= max
Ranges ==
    { Range(lo, hi, step) : lo \in 1..MaxParam, hi \in 1..MaxParam, step \in 1..MaxStep }
        \ { r \in [min : 1..MaxParam, max : 1..MaxParam, step : 1..MaxStep] : r.min > r.max }

ParameterSweeps ==
    { ParameterSweep("combined pickups and dropoffs", CapacityCol, n, c, t) :
        n \in Ranges, c \in Ranges, t \in Ranges }

(* --------------------------- the program ------------------------------- *)
VARIABLES
    locations_df,             \* argument: the locations table
    distances_df,             \* argument: the distance matrix
    pickup_params,            \* argument: stage-1 SimulationParams
    combo_params,             \* argument: stage-2 SimulationParams
    pc,                       \* "called", "stage2", "returned" or "raised"
    pickups_only_df,          \* the stage-1 routes
    pending,                  \* route keys the loop has still to process
    all_pickups_dropoffs_df,  \* the combined routes gathered so far
    result,                   \* the value returned
    solver_calls,             \* history: every solve_cvrp call of this run
    run,                      \* 1 for the first call with these arguments
    first_run,                \* how the first call ended, once it has
    pickups_sweep,            \* compute_routes: the pickups-only ParameterSweep
    combo_sweep,              \* compute_routes: the combined ParameterSweep
    pickup_gen,               \* what the outer generator has still to yield
    combo_gen,                \* what the inner generator has still to yield
    enumerations,             \* history: what each enumeration of combo_sweep yielded
    sweep_pc,                 \* where compute_routes (or the generator) stands
    clock,                    \* the wall clock, in seconds
    sim_started_utc,          \* compute_routes: start of the current simulation
    storage,                  \* history: every file written, in order
    stats,                    \* compute_routes: the summary statistics
    routes,                   \* sensitivity_analysis: the table of routes.csv
    assignments,              \* sensitivity_analysis: route ids still to summarise
    res_dict,                 \* sensitivity_analysis: the columns of the summary
    totals,                   \* sensitivity_analysis: the local names bound so far
    analysis_pc,              \* where sensitivity_analysis stands
    config,                   \* from_config: the configuration dict
    configured,               \* from_config: how the call ended
    bbox,                     \* split_along_axes: the BoundingBox
    into,                     \* split_along_axes: the arguments x_into, y_into
    slices                    \* split_along_axes: how the call ended

\* the state of a call of solve_bidirectional_cvrp
call_vars == <<locations_df, distances_df, pickup_params, combo_params, pc,
               pickups_only_df, pending, all_pickups_dropoffs_df, result,
               solver_calls, run, first_run>>

\* the state of compute_routes around the call
outer == <<pickups_sweep, combo_sweep, pickup_gen, combo_gen, enumerations,
           sweep_pc, clock, sim_started_utc, storage, stats>>

\* the state of sensitivity_analysis
analysis == <<routes, assignments, res_dict, totals, analysis_pc>>

\* the state of ParameterSweep.from_config and BoundingBox.split_along_axes
tools == <<config, configured, bbox, into, slices>>

vars == <<locations_df, distances_df, pickup_params, combo_params, pc,
          pickups_only_df, pending, all_pickups_dropoffs_df, result,
          solver_calls, run, first_run, outer, analysis, tools>>

inputs == <<locations_df, distances_df, pickup_params, combo_params>>

runs == <<run, first_run>>

NotEnded == [pc |-> "called", result |-> None]

\* sensitivity_analysis is not running
NoAnalysis ==
    /\ routes = <<>>
    /\ assignments = <<>>
    /\ res_dict = <<>>
    /\ totals = <<>>
    /\ analysis_pc = "none"

\* a call that has not been made, one that returned a value and one that
\* raised an exception of the named class
NotCalled == [called |-> FALSE, raised |-> "", value |-> <<>>]
Returns(value) == [called |-> TRUE, raised |-> "", value |-> value]
Raises(exception) == [called |-> TRUE, raised |-> exception, value |-> <<>>]

\* neither from_config nor split_along_axes is called
NoTools ==
    /\ config = <<>>
    /\ configured = NotCalled
    /\ bbox = <<>>
    /\ into = <<>>
    /\ slices = NotCalled

NoSweep == ParameterSweep("", "", Range(0, 0, 1), Range(0, 0, 1), Range(0, 0, 1))

\* solve_bidirectional_cvrp called on its own, outside compute_routes
NoComputeRoutes ==
    /\ pickups_sweep = NoSweep
    /\ combo_sweep = NoSweep
    /\ pickup_gen = <<>>
    /\ combo_gen = <<>>
    /\ enumerations = <<>>
    /\ sweep_pc = "none"
    /\ clock = 0
    /\ sim_started_utc = 0
    /\ storage = <<>>
    /\ stats = <<>>

Init ==
    /\ locations_df \in LocationTables
    /\ distances_df \in DistanceTables
    /\ pickup_params \in PickupParamSets
    /\ combo_params \in ComboParamSets
    /\ pc = "called"
    /\ pickups_only_df = None
    /\ pending = <<>>
    /\ all_pickups_dropoffs_df = None
    /\ result = None
    /\ solver_calls = <<>>
    /\ run = 1
    /\ first_run = NotEnded
    /\ NoComputeRoutes
    /\ NoAnalysis
    /\ NoTools

\* routes_df["Route"].unique(), as a set
RouteIds(df) == { df[r].Route : r \in 1..Len(df) }

\* one solve_cvrp call as the history keeps it
CallRecord(stage, grp, locs, data, outcome, df) ==
    [stage |-> stage, grp |-> grp, locations |-> locs,
     distance_matrix |-> data.distance_matrix, demands |-> data.demands,
     num_vehicles |-> data.num_vehicles,
     vehicle_capacity |-> data.vehicle_capacity,
     outcome |-> outcome, returned |-> df]

Outcome(df) == IF df.some THEN "routes" ELSE "none"

\* a variant of ReturnsEarly that goes on to the loop without routes
ReturnsEarly_Never(df) == FALSE

\* lines 253-255: "if pickups_only_df is None: return"
ReturnsEarly(df) == ~df.some

\* line 337: the value returned is the routes table, or None; it names no
\* route that was passed over
SkippedRouteIds(res) == {}

\* a variant of NewAccumulator that keeps what an earlier call gathered
NewAccumulator_Kept(all_df) == all_df

\* line 261: "all_pickups_dropoffs_df = None", whatever it held
NewAccumulator(all_df) == None

\* a variant of AssignedOnLoc in which df.loc[idx] is a view of df: the
\* column assigned on it shows in the rows of df that idx names
AssignedOnLoc_WritesThrough(df, idx, column, vals) ==
    [r \in 1..Len(df) |->
        LET at == { p \in 1..Len(idx) : idx[p] = r - 1 }
        IN  IF at = {} THEN df[r]
            ELSE [c \in DOMAIN df[r] \cup {column} |->
                     IF c = column
                     THEN vals[CHOOSE p \in at : \A q \in at : q <= p]
                     ELSE df[r][c]]]

\* df after `sub = df.loc[idx]; sub[column] = vals` (lines 201-202 and
\* 270-275): df.loc with a list of labels is a new table, so the column is
\* added to the copy and df is as it was
AssignedOnLoc(df, idx, column, vals) == df

\* lines 243-261: the pickups-only solve; without a solution the call
\* returns None at once
Stage1(solution) ==
    LET data == DataModel(locations_df, distances_df, pickup_params.num_vehicles,
                          pickup_params.vehicle_capacity, pickup_params.demand_column)
        df == solve_cvrp(locations_df, data, solution)
    IN  /\ pc = "called"
        /\ solver_calls' = Append(solver_calls,
                                  CallRecord(1, 0, locations_df, data, Outcome(df), df.df))
        /\ pickups_only_df' = df
        /\ all_pickups_dropoffs_df' = NewAccumulator(all_pickups_dropoffs_df)
        /\ IF ReturnsEarly(df)
           THEN /\ pc' = "returned"
                /\ result' = None
                /\ UNCHANGED pending
           ELSE /\ pc' = "stage2"
                /\ pending' = RouteKeys(df.df)
                /\ UNCHANGED result
        /\ locations_df' = (IF df.some
                            THEN AssignedOnLoc(locations_df,
                                               Column(df.df, "Original_Index"),
                                               "Route", Column(df.df, "Route"))
                            ELSE locations_df)
        /\ UNCHANGED <<distances_df, pickup_params, combo_params, runs, outer,
                       analysis, tools>>

PickupData ==
    DataModel(locations_df, distances_df, pickup_params.num_vehicles,
              pickup_params.vehicle_capacity, pickup_params.demand_column)

SolvePickups == \E solution \in SolveWithParameters(PickupData) : Stage1(solution)

\* the sub-problem of one stage-1 route (lines 264-309)
SubLocs(grp) ==
    CombinedLocs(locations_df, PickupIdx(GetGroup(pickups_only_df.df, grp)))

SubDist(grp) ==
    LET pickup_df == GetGroup(pickups_only_df.df, grp)
    IN  CombinedDist(distances_df, PickupIdx(pickup_df), DropoffIdx(pickup_df))

SubData(grp) ==
    DataModel(SubLocs(grp), SubDist(grp), combo_params.num_vehicles,
              combo_params.vehicle_capacity, combo_params.demand_column)

\* locations_df once lines 270-275 have put the Capacity column on
\* locations_df.loc[pickup_idx]
CapacityAssigned(grp) ==
    LET pickup_idx == PickupIdx(GetGroup(pickups_only_df.df, grp))
    IN  AssignedOnLoc(locations_df, pickup_idx, CapacityCol,
                      Column(PickupLocs(locations_df, pickup_idx), CapacityCol))

\* a variant of Retag that prefixes the route ids with the number of
\* stage-2 solves made before this one, not with the route's key
Retag_ByPosition(grp, df) ==
    [r \in 1..Len(df) |->
        [df[r] EXCEPT !.Route = Tag(Len(solver_calls) - 1, df[r].Route)]]

\* lines 325-328: the route ids of one sub-solve, prefixed with the key
Retag(grp, df) == [r \in 1..Len(df) |-> [df[r] EXCEPT !.Route = Tag(grp, df[r].Route)]]

\* a variant of Merge that drops what was gathered when a route has no
\* stage-2 solution
Merge_ForgetsOnFailure(all_df, grp, df) ==
    IF ~df.some THEN None
    ELSE IF all_df.some THEN Some(all_df.df \o Retag(grp, df.df))
    ELSE Some(Retag(grp, df.df))

\* lines 321-335: a route without a stage-2 solution is passed over, the
\* others' tagged sub-routes are appended to those gathered so far
Merge(all_df, grp, df) ==
    IF ~df.some THEN all_df
    ELSE IF all_df.some THEN Some(all_df.df \o Retag(grp, df.df))
    ELSE Some(Retag(grp, df.df))

\* one iteration of the loop of lines 262-335, and the return of line 337
\* after the last
Stage2(grp, locs, data, solution) ==
    LET df == solve_cvrp(locs, data, solution)
        all_df == Merge(all_pickups_dropoffs_df, grp, df)
    IN  /\ solver_calls' = Append(solver_calls,
                                  CallRecord(2, grp, locs, data, Outcome(df), df.df))
        /\ all_pickups_dropoffs_df' = all_df
        /\ pending' = Tail(pending)
        /\ IF Tail(pending) = <<>>
           THEN pc' = "returned" /\ result' = all_df
           ELSE pc' = "stage2" /\ UNCHANGED result
        /\ locations_df' = CapacityAssigned(grp)
        /\ UNCHANGED <<distances_df, pickup_params, combo_params, pickups_only_df,
                       runs, outer, analysis, tools>>

\* the sub-problem has a node without a demand: IndexError in the demand
\* callback (line 165), or in _parse_solution (line 72) once routes are
\* found, leaves solve_bidirectional_cvrp
Stage2Raises(grp, locs, data) ==
    /\ solver_calls' = Append(solver_calls,
                              CallRecord(2, grp, locs, data, "raised", <<>>))
    /\ pc' = "raised"
    /\ locations_df' = CapacityAssigned(grp)
    /\ UNCHANGED <<distances_df, pickup_params, combo_params, pickups_only_df,
                   pending, all_pickups_dropoffs_df, result, runs, outer, analysis, tools>>

\* with a node that has no demand the call raises, unless the binding
\* swallows the callback's exception and the search ends without a solution
ProcessRoute ==
    /\ pc = "stage2"
    /\ pending # <<>>
    /\ LET grp == Head(pending)
           locs == SubLocs(grp)
           data == SubData(grp)
       IN  IF DemandLookupFails(data)
           THEN \E escapes \in BOOLEAN :
                    IF escapes THEN Stage2Raises(grp, locs, data)
                    ELSE Stage2(grp, locs, data, NoSolution)
           ELSE \E solution \in SolveWithParameters(data) :
                    Stage2(grp, locs, data, solution)

Next == SolvePickups \/ ProcessRoute

Spec == Init /\ [][Next]_vars

(* ---------- two calls with the same arguments, one solver answer -------- *)
DetSolvePickups == Stage1(DeterministicSolve(PickupData))

DetProcessRoute ==
    /\ pc = "stage2"
    /\ pending # <<>>
    /\ LET grp == Head(pending)
           locs == SubLocs(grp)
           data == SubData(grp)
       IN  IF DemandLookupFails(data)
           THEN Stage2Raises(grp, locs, data)
           ELSE Stage2(grp, locs, data, DeterministicSolve(data))

\* the caller calls solve_bidirectional_cvrp again with the arguments of the
\* first call; the locals of the call are new, the history starts again
CallAgain ==
    /\ pc \in {"returned", "raised"}
    /\ run = 1
    /\ run' = 2
    /\ first_run' = [pc |-> pc, result |-> result]
    /\ pc' = "called"
    /\ pickups_only_df' = None
    /\ pending' = <<>>
    /\ result' = None
    /\ solver_calls' = <<>>
    /\ UNCHANGED <<inputs, all_pickups_dropoffs_df, outer, analysis, tools>>

NextDet == DetSolvePickups \/ DetProcessRoute \/ CallAgain

SpecDet == Init /\ [][NextDet]_vars

(* ------------- the stage-1 routes processed in another order ------------ *)
\* the loop of line 262 started on the same groups in another order: before
\* the first iteration of the second call the routes still to process are
\* rearranged
PickOrder ==
    /\ pc = "stage2"
    /\ run = 2
    /\ Len(solver_calls) = 1
    /\ \E order \in Perms({ pending[i] : i \in 1..Len(pending) }) :
           /\ order # pending
           /\ pending' = order
    /\ UNCHANGED <<inputs, pc, pickups_only_df, all_pickups_dropoffs_df, result,
                   solver_calls, runs, outer, analysis, tools>>

NextOrder == DetSolvePickups \/ DetProcessRoute \/ CallAgain \/ PickOrder

SpecOrder == Init /\ [][NextOrder]_vars

(* ------------------- a call with invalid arguments --------------------- *)
\* the locations tables whose depot takes no dropoff
DepotFreeTables == { t \in LocationTables : t[1].Weekly_Dropoff_Totes = 0 }

\* a locations table with one negative demand at a stop
InvalidLocationTables ==
    { [t EXCEPT ![r] = [t[r] EXCEPT ![col] = -1]] :
        t \in DepotFreeTables, r \in 2..(NumStops + 1), col \in {PickupCol, DropoffCol} }

\* a distance matrix with a negative distance, with one column more than
\* rows, or square with fewer rows than there are locations
InvalidDistanceTables ==
    { [m EXCEPT ![1] = [m[1] EXCEPT ![2] = -1]] : m \in DistanceTables }
        \cup { [r \in 1..Len(m) |-> Append(m[r], 1)] : m \in DistanceTables }
        \cup { [r \in 1..NumStops |-> SubSeq(m[r], 1, NumStops)] : m \in DistanceTables }

\* solve_bidirectional_cvrp is called as it is by compute_routes, with
\* tables read from files that nothing has validated
InitInvalid ==
    /\ \E args \in (InvalidLocationTables \X DistanceTables)
                      \cup (DepotFreeTables \X InvalidDistanceTables) :
           locations_df = args[1] /\ distances_df = args[2]
    /\ pickup_params \in PickupParamSets
    /\ combo_params \in { p \in ComboParamSets :
                             p.demand_column = CapacityCol /\ p.num_vehicles = 1 }
    /\ pc = "called"
    /\ pickups_only_df = None
    /\ pending = <<>>
    /\ all_pickups_dropoffs_df = None
    /\ result = None
    /\ solver_calls = <<>>
    /\ run = 1
    /\ first_run = NotEnded
    /\ NoComputeRoutes
    /\ NoAnalysis
    /\ NoTools

SpecInvalid == InitInvalid /\ [][Next]_vars

(* ------------- enumerating one ParameterSweep (routes/common.py) -------- *)
NoParams == SimulationParams("", 0, 0, 0)

\* no call of solve_bidirectional_cvrp is under way
NoCall ==
    /\ pickup_params = NoParams
    /\ combo_params = NoParams
    /\ pc = "idle"
    /\ pickups_only_df = None
    /\ pending = <<>>
    /\ all_pickups_dropoffs_df = None
    /\ result = None
    /\ solver_calls = <<>>
    /\ run = 1
    /\ first_run = NotEnded

InitParams ==
    /\ locations_df = <<>>
    /\ distances_df = <<>>
    /\ NoCall
    /\ pickups_sweep = NoSweep
    /\ combo_sweep \in ParameterSweeps
    /\ pickup_gen = <<>>
    /\ combo_gen = <<>>
    /\ enumerations = <<>>
    /\ sweep_pc = "new"
    /\ clock = 0
    /\ sim_started_utc = 0
    /\ storage = <<>>
    /\ stats = <<>>
    /\ NoAnalysis
    /\ NoTools

\* the history of enumerations with item added to the one under way
Yielded(history, item) ==
    [history EXCEPT ![Len(history)] = Append(history[Len(history)], item)]

\* sweep.yield_simulation_params() is called: a new generator, also after an
\* earlier one of the same sweep was used up
NewGenerator ==
    /\ sweep_pc \in {"new", "exhausted"}
    /\ Len(enumerations) < MaxEnumerations
    /\ combo_gen' = yield_simulation_params(combo_sweep)
    /\ enumerations' = Append(enumerations, <<>>)
    /\ sweep_pc' = "enumerating"
    /\ UNCHANGED <<call_vars, pickups_sweep, combo_sweep, pickup_gen, clock,
                   sim_started_utc, storage, stats, analysis, tools>>

\* next(generator): the next SimulationParams, or StopIteration
NextParams ==
    /\ sweep_pc = "enumerating"
    /\ IF combo_gen = <<>>
       THEN /\ sweep_pc' = "exhausted"
            /\ UNCHANGED <<combo_gen, enumerations>>
       ELSE /\ enumerations' = Yielded(enumerations, Head(combo_gen))
            /\ combo_gen' = Tail(combo_gen)
            /\ UNCHANGED sweep_pc
    /\ UNCHANGED <<call_vars, pickups_sweep, combo_sweep, pickup_gen, clock,
                   sim_started_utc, storage, stats, analysis, tools>>

NextEnumerate == NewGenerator \/ NextParams

SpecParams == InitParams /\ [][NextEnumerate]_vars

(* ----------------------- compute_routes (main.py) ---------------------- *)
\* strftime("%Y%m%d%H%M%S"): the reading cut to whole seconds, as text
strftime(t) == Str(t \div TicksPerSecond)

\* the code points of the characters of a route id
CharCode(ch) ==
    CASE ch = "-" -> 45
      [] ch = "0" -> 48 [] ch = "1" -> 49 [] ch = "2" -> 50 [] ch = "3" -> 51
      [] ch = "4" -> 52 [] ch = "5" -> 53 [] ch = "6" -> 54 [] ch = "7" -> 55
      [] ch = "8" -> 56 [] ch = "9" -> 57

\* Python's a < b on strings
RECURSIVE StrLess(_, _)
StrLess(a, b) ==
    IF b = <<>> THEN FALSE
    ELSE IF a = <<>> THEN TRUE
    ELSE IF CharCode(a[1]) # CharCode(b[1]) THEN CharCode(a[1]) < CharCode(b[1])
    ELSE StrLess(Tail(a), Tail(b))

\* routes_df.groupby("Route").groups: the route ids, sorted
RECURSIVE SortedIds(_)
SortedIds(S) ==
    IF S = {} THEN <<>>
    ELSE LET m == CHOOSE x \in S : \A y \in S \ {x} : StrLess(x, y)
         IN  <<m>> \o SortedIds(S \ {m})

\* lines 260-262
num_routes(routes_df) ==
    IF ~routes_df.some THEN 0 ELSE Cardinality({ routes_df.df[r].Route : r \in 1..Len(routes_df.df) })

\* lines 266-284: the metadata of one simulation
Metadata(name, started, ended, routes_df, pickup, combo) ==
    [Name |-> name,
     Type |-> "Multi-Stage Simulation",
     Start_Time_UTC |-> started,
     End_Time_UTC |-> ended,
     Solver |-> "google",
     City |-> "galveston",
     Num_Routes_Generated |-> num_routes(routes_df),
     Pickup_Only_Parameters |->
         [Number_of_Vehicles |-> num_routes(routes_df),
          Vehicle_Capacity |-> pickup.vehicle_capacity,
          Simulation_Runtime_Seconds |-> pickup.runtime],
     Combined_Pickup_Dropoff_Parameters |->
         [Number_of_Vehicles |-> combo.num_vehicles,
          Vehicle_Capacity |-> combo.vehicle_capacity,
          Simulation_Runtime_Seconds |-> combo.runtime]]

\* lines 302-318: the statistics of one route
RouteStats(df, key) ==
    LET grp_df == SelectSeq(df, LAMBDA row : row.Route = key)
    IN  [Route_Name |-> key,
         Pickup_Demands |-> SumSeq(Column(grp_df, PickupCol)),
         Dropoff_Demands |-> SumSeq(Column(grp_df, DropoffCol)),
         Cumulative_Distances |-> grp_df[Len(grp_df)].Cumulative_Distance]

\* one file written through storage.open_file(path, "w"): the path, what
\* was written, and the simulation that wrote it (0: none)
Written(sim, dir, file, kind, content) ==
    [sim |-> sim, dir |-> dir, file |-> file, kind |-> kind, content |-> content]

\* a variant of WritesRoutes that goes on to the route files without routes
WritesRoutes_Always(routes_df) == TRUE

\* lines 292-293: "if routes_df is None: continue"
WritesRoutes(routes_df) == routes_df.some

\* lines 286-335: the files of one simulation, in the order written: the
\* metadata always; with routes, the table, the text of the routes and one
\* map for each route and for all of them
SimulationFiles(sim, sim_dir, metadata, routes_df) ==
    LET keys == IF routes_df.some THEN SortedIds(RouteIds(routes_df.df)) ELSE <<>>
    IN  <<Written(sim, sim_dir, <<"metadata.json">>, "metadata", metadata)>>
        \o (IF WritesRoutes(routes_df)
            THEN <<Written(sim, sim_dir, <<"routes.csv">>, "routes", routes_df.df),
                   Written(sim, sim_dir, <<"routes.txt">>, "text", keys)>>
                 \o [k \in 1..Len(keys) |->
                        Written(sim, sim_dir, <<"route_">> \o keys[k] \o <<".html">>,
                                "map", keys[k])]
                 \o <<Written(sim, sim_dir, <<"all_routes.html">>, "map", keys)>>
            ELSE <<>>)

\* the sweeps of a run of compute_routes: one or two vehicle counts for the
\* pickups, one or two capacities for the combined simulations
PickupSweeps ==
    { ParameterSweep("pickups only", PickupCol, Range(lo, MaxVehicles, 1),
                     Range(MaxCapacity - 1, MaxCapacity - 1, 1), Range(1, 1, 1)) :
        lo \in (MaxVehicles - 1)..MaxVehicles }

ComboSweeps ==
    { ParameterSweep("combined pickups and dropoffs", CapacityCol, Range(1, 1, 1),
                     Range(lo, MaxCapacity, 1), Range(2, 2, 1)) :
        lo \in (MaxCapacity - 1)..MaxCapacity }

\* the locations of a run: the first stop takes a dropoff, the depot may
SweepLocationTables ==
    { t \in LocationTables :
        /\ \A r \in 2..(NumStops + 1) : t[r].Daily_Pickup_Totes = 1
        /\ \A r \in 2..(NumStops + 1) : t[r].Weekly_Dropoff_Totes = (IF r = 2 THEN 1 ELSE 0) }

SweepDistanceTables == { m \in DistanceTables : m[1][2] = 2 }

\* lines 231-243: the client, the statistics, the outer generator
InitSweep ==
    /\ locations_df \in SweepLocationTables
    /\ distances_df \in SweepDistanceTables
    /\ NoCall
    /\ pickups_sweep \in PickupSweeps
    /\ combo_sweep \in ComboSweeps
    /\ pickup_gen = yield_simulation_params(pickups_sweep)
    /\ combo_gen = <<>>
    /\ enumerations = <<>>
    /\ sweep_pc = "outer"
    /\ clock = 0
    /\ sim_started_utc = 0
    /\ storage = <<>>
    /\ stats = <<>>
    /\ NoAnalysis
    /\ NoTools

\* the simulations started so far; the last is the current one
Started == SumSeq([n \in 1..Len(enumerations) |-> Len(enumerations[n])])

\* datetime.utcnow(): later than the reading before, by a moment or by a
\* whole second
UtcNow(now) == { t \in {now + 1, now + TicksPerSecond} : t <= MaxClock }

\* line 243: the next pickup parameters and (line 247) a new enumeration of
\* the combined sweep; compute_routes returns when there are none left
NextPickupParams ==
    /\ sweep_pc = "outer"
    /\ IF pickup_gen = <<>>
       THEN /\ sweep_pc' = "done"
            /\ UNCHANGED <<pickup_params, pickup_gen, combo_gen, enumerations>>
       ELSE /\ pickup_params' = Head(pickup_gen)
            /\ pickup_gen' = Tail(pickup_gen)
            /\ combo_gen' = yield_simulation_params(combo_sweep)
            /\ enumerations' = Append(enumerations, <<>>)
            /\ sweep_pc' = "inner"
    /\ UNCHANGED <<locations_df, distances_df, combo_params, pc, pickups_only_df,
                   pending, all_pickups_dropoffs_df, result, solver_calls, runs,
                   pickups_sweep, combo_sweep, clock, sim_started_utc, storage, stats,
                   analysis, tools>>

\* lines 247-259: the next combined parameters, the start time, and the
\* call of solve_bidirectional_cvrp
StartSimulation ==
    /\ sweep_pc = "inner"
    /\ combo_gen # <<>>
    /\ combo_params' = Head(combo_gen)
    /\ combo_gen' = Tail(combo_gen)
    /\ enumerations' = Yielded(enumerations, Head(combo_gen))
    /\ \E now \in UtcNow(clock) : clock' = now /\ sim_started_utc' = now
    /\ pc' = "called"
    /\ pickups_only_df' = None
    /\ pending' = <<>>
    /\ result' = None
    /\ solver_calls' = <<>>
    /\ sweep_pc' = "solving"
    /\ UNCHANGED <<locations_df, distances_df, pickup_params, all_pickups_dropoffs_df,
                   runs, pickups_sweep, combo_sweep, pickup_gen, storage, stats,
                   analysis, tools>>

\* lines 337-342: the inner loop is over, the statistics so far are written
WriteSummaryStats ==
    /\ sweep_pc = "inner"
    /\ combo_gen = <<>>
    /\ storage' = Append(storage,
                         Written(0, <<>>, <<"summary_stats.json">>, "stats", stats))
    /\ sweep_pc' = "outer"
    /\ UNCHANGED <<call_vars, pickups_sweep, combo_sweep, pickup_gen, combo_gen,
                   enumerations, clock, sim_started_utc, stats, analysis, tools>>

\* lines 260-335: the call has returned; metadata, and with routes the
\* route files and the statistics
FinishSimulation ==
    /\ sweep_pc = "solving"
    /\ pc = "returned"
    /\ \E now \in UtcNow(clock) :
           LET routes_df == result
               sim_dir == strftime(sim_started_utc)
               metadata == Metadata(combo_sweep.name, sim_started_utc, now, routes_df,
                                    pickup_params, combo_params)
               keys == SortedIds(RouteIds(routes_df.df))
               sim_results == [k \in 1..Len(keys) |-> RouteStats(routes_df.df, keys[k])]
           IN  /\ clock' = now
               /\ storage' = storage \o SimulationFiles(Started, sim_dir, metadata, routes_df)
               /\ stats' = IF WritesRoutes(routes_df)
                           THEN Append(stats, [Simulation |-> metadata,
                                               Results |-> sim_results])
                           ELSE stats
    /\ pc' = "idle"
    /\ sweep_pc' = "inner"
    /\ UNCHANGED <<locations_df, distances_df, pickup_params, combo_params,
                   pickups_only_df, pending, all_pickups_dropoffs_df, result,
                   solver_calls, runs, pickups_sweep, combo_sweep, pickup_gen,
                   combo_gen, enumerations, sim_started_utc, analysis, tools>>

\* the call has raised: nothing in compute_routes catches it
SimulationRaises ==
    /\ sweep_pc = "solving"
    /\ pc = "raised"
    /\ sweep_pc' = "raised"
    /\ UNCHANGED <<call_vars, pickups_sweep, combo_sweep, pickup_gen, combo_gen,
                   enumerations, clock, sim_started_utc, storage, stats, analysis, tools>>

\* what the solver answers in a run of compute_routes: a cheapest
\* assignment, or nothing (none exists, or the time was up)
Answers(data) == {NoSolution, DeterministicSolve(data)}

\* line 257: the steps of the call under way
CallSolvePickups ==
    /\ sweep_pc = "solving"
    /\ pc = "called"
    /\ \E solution \in Answers(PickupData) : Stage1(solution)

CallProcessRoute ==
    /\ sweep_pc = "solving"
    /\ pc = "stage2"
    /\ pending # <<>>
    /\ LET grp == Head(pending)
           locs == SubLocs(grp)
           data == SubData(grp)
       IN  IF DemandLookupFails(data)
           THEN \E escapes \in BOOLEAN :
                    IF escapes THEN Stage2Raises(grp, locs, data)
                    ELSE Stage2(grp, locs, data, NoSolution)
           ELSE \E solution \in Answers(data) : Stage2(grp, locs, data, solution)

NextSweep ==
    \/ NextPickupParams
    \/ StartSimulation
    \/ CallSolvePickups
    \/ CallProcessRoute
    \/ FinishSimulation
    \/ SimulationRaises
    \/ WriteSummaryStats

SpecSweep == InitSweep /\ [][NextSweep]_vars

(* -------------- sensitivity_analysis (sensitivity_analysis.py) --------- *)
\* the rows of one route of a routes.csv: the depot, a stop, the depot
RouteRows(id, pickup, dropoff, distance) ==
    <<[Route |-> id, Daily_Pickup_Totes |-> 0, Weekly_Dropoff_Totes |-> 0,
       Cumulative_Distance |-> 0],
      [Route |-> id, Daily_Pickup_Totes |-> pickup, Weekly_Dropoff_Totes |-> dropoff,
       Cumulative_Distance |-> distance],
      [Route |-> id, Daily_Pickup_Totes |-> 0, Weekly_Dropoff_Totes |-> 0,
       Cumulative_Distance |-> 2 * distance]>>

\* the routes.csv files read: up to MaxRoutes routes "0-0", "0-1", ...
RoutesTables ==
    UNION { { Concat([v \in 1..n |->
                        RouteRows(Tag(0, v - 1), p[v], d[v], c[v])]) :
                p \in [1..n -> 1..MaxPickup],
                d \in [1..n -> 0..MaxDropoff],
                c \in [1..n -> 1..MaxDistance] } :
            n \in 0..MaxRoutes }

\* routes["Route"].unique(): the ids in the order they first appear
RECURSIVE Unique(_, _)
Unique(list, seen) ==
    IF list = <<>> THEN <<>>
    ELSE IF list[1] \in seen THEN Unique(Tail(list), seen)
    ELSE <<list[1]>> \o Unique(Tail(list), seen \cup {list[1]})

\* lines 21-39: the table is read; res_dict has its six empty columns and
\* five names are bound to 0, the first of them "total_pickup_tote"
InitAnalysis ==
    /\ locations_df = <<>>
    /\ distances_df = <<>>
    /\ NoCall
    /\ NoComputeRoutes
    /\ routes \in RoutesTables
    /\ assignments = Unique(Column(routes, "Route"), {})
    /\ res_dict = [Route_Names |-> <<>>, Pickup_Demands |-> <<>>,
                   Pickup_Estimated_Cups |-> <<>>, Dropoff_Demands |-> <<>>,
                   Dropoff_Estimated_Cups |-> <<>>, Cumulative_Distances |-> <<>>]
    /\ totals = [name \in {"total_pickup_tote", "total_pickup_cups",
                            "total_dropoff_totes", "total_dropoff_cups",
                            "total_dist_trav"} |-> 0]
    /\ analysis_pc = "loop"
    /\ NoTools

\* the names an augmented assignment or an append reads are all bound;
\* reading an unbound local name raises UnboundLocalError
Bound(names) == names \subseteq DOMAIN totals

TotalNames ==
    {"total_pickup_totes", "total_pickup_cups", "total_dropoff_totes",
     "total_dropoff_cups", "total_dist_trav"}

\* lines 40-58: one route is summarised and added to the running totals
SummarizeRoute ==
    /\ analysis_pc = "loop"
    /\ assignments # <<>>
    /\ LET assignment == Head(assignments)
           df == SelectSeq(routes, LAMBDA row : row.Route = assignment)
           pickup_demand_total == SumSeq(Column(df, PickupCol))
           dropoff_demand_total == SumSeq(Column(df, DropoffCol))
           distance_total == df[Len(df)].Cumulative_Distance
       IN  /\ res_dict' =
                  [Route_Names |-> Append(res_dict.Route_Names, assignment),
                   Pickup_Demands |-> Append(res_dict.Pickup_Demands, pickup_demand_total),
                   Pickup_Estimated_Cups |->
                       Append(res_dict.Pickup_Estimated_Cups, 50 * pickup_demand_total),
                   Dropoff_Demands |-> Append(res_dict.Dropoff_Demands, dropoff_demand_total),
                   Dropoff_Estimated_Cups |->
                       Append(res_dict.Dropoff_Estimated_Cups, 250 * pickup_demand_total),
                   Cumulative_Distances |->
                       Append(res_dict.Cumulative_Distances, distance_total)]
           /\ IF Bound(TotalNames)
              THEN /\ totals' =
                          [totals EXCEPT
                             !["total_pickup_totes"] = @ + pickup_demand_total,
                             !["total_pickup_cups"] = @ + 50 * pickup_demand_total,
                             !["total_dropoff_totes"] = @ + dropoff_demand_total,
                             !["total_dropoff_cups"] = @ + 250 * dropoff_demand_total,
                             !["total_dist_trav"] = @ + distance_total]
                   /\ assignments' = Tail(assignments)
                   /\ UNCHANGED analysis_pc
              ELSE /\ analysis_pc' = "raised"
                   /\ UNCHANGED <<totals, assignments>>
    /\ UNCHANGED <<call_vars, outer, routes, tools>>

\* lines 60-69: the Totals row is added and the summary is written
SaveTotals ==
    /\ analysis_pc = "loop"
    /\ assignments = <<>>
    /\ IF Bound(TotalNames)
       THEN /\ res_dict' =
                   [Route_Names |-> Append(res_dict.Route_Names, <<"Totals">>),
                    Pickup_Demands |->
                        Append(res_dict.Pickup_Demands, totals["total_pickup_totes"]),
                    Pickup_Estimated_Cups |->
                        Append(res_dict.Pickup_Estimated_Cups, totals["total_pickup_cups"]),
                    Dropoff_Demands |->
                        Append(res_dict.Dropoff_Demands, totals["total_dropoff_totes"]),
                    Dropoff_Estimated_Cups |->
                        Append(res_dict.Dropoff_Estimated_Cups, totals["total_dropoff_cups"]),
                    Cumulative_Distances |->
                        Append(res_dict.Cumulative_Distances, totals["total_dist_trav"])]
            /\ analysis_pc' = "done"
       ELSE /\ res_dict' = [res_dict EXCEPT
                               !.Route_Names = Append(res_dict.Route_Names, <<"Totals">>)]
            /\ analysis_pc' = "raised"
    /\ UNCHANGED <<call_vars, outer, routes, assignments, totals, tools>>

NextAnalysis == SummarizeRoute \/ SaveTotals

SpecAnalysis == InitAnalysis /\ [][NextAnalysis]_vars

(* ------------- ParameterSweep.from_config (routes/common.py) ------------ *)
\* the keys from_config reads, in the order it reads them, and those whose
\* value is a Range given as a dict
SweepKeys ==
    <<"name", "place_capacity_column", "num_vehicles", "vehicle_capacity",
      "simulation_runtime">>

RangeNames == {"num_vehicles", "vehicle_capacity", "simulation_runtime"}

\* the fields of the Range dataclass
RangeFields == {"min", "max", "step"}

\* the configurations enumerated: any of the five keys may be missing, and
\* each range may lack any of its fields
RangeDicts == { [k \in D |-> IF k = "max" THEN MaxParam ELSE 1] : D \in SUBSET RangeFields }

Configs ==
    { [k \in D |-> IF k \in RangeNames THEN r[k] ELSE "given"] :
        D \in SUBSET { SweepKeys[i] : i \in 1..Len(SweepKeys) },
        r \in [RangeNames -> RangeDicts] }

\* Range(**cfg): the generated __init__ takes min, max and step, and a call
\* without one of them raises TypeError
RangeFromDict(cfg) ==
    IF DOMAIN cfg = RangeFields THEN Returns(Range(cfg.min, cfg.max, cfg.step))
    ELSE Raises("TypeError")

\* one argument of the constructor call of lines 96-102: config[key] raises
\* KeyError when the key is missing
Argument(cfg, key) ==
    IF key \notin DOMAIN cfg THEN Raises("KeyError")
    ELSE IF key \in RangeNames THEN RangeFromDict(cfg[key])
    ELSE Returns(cfg[key])

\* lines 96-102: the arguments are evaluated in order and the first
\* exception ends the evaluation
Constructed(cfg) ==
    LET failed == SelectSeq(SweepKeys, LAMBDA key : Argument(cfg, key).raised # "")
    IN  IF failed # <<>> THEN Raises(Argument(cfg, Head(failed)).raised)
        ELSE Returns(ParameterSweep(cfg.name, cfg.place_capacity_column,
                                    Argument(cfg, "num_vehicles").value,
                                    Argument(cfg, "vehicle_capacity").value,
                                    Argument(cfg, "simulation_runtime").value))

\* lines 95-107: a KeyError of the construction is raised again as
\* ValueError; any other exception passes through
from_config(cfg) ==
    LET made == Constructed(cfg)
    IN  IF made.raised = "KeyError" THEN Raises("ValueError") ELSE made

InitConfig ==
    /\ locations_df = <<>>
    /\ distances_df = <<>>
    /\ NoCall
    /\ NoComputeRoutes
    /\ NoAnalysis
    /\ config \in Configs
    /\ configured = NotCalled
    /\ bbox = <<>>
    /\ into = <<>>
    /\ slices = NotCalled

FromConfig ==
    /\ ~configured.called
    /\ configured' = from_config(config)
    /\ UNCHANGED <<call_vars, outer, analysis, config, bbox, into, slices>>

SpecConfig == InitConfig /\ [][FromConfig]_vars

(* ------------ BoundingBox.split_along_axes (utils/geometry.py) ---------- *)
\* coordinates are counted in millionths of a degree, the unit to which
\* round(_, 6) brings every coordinate of a slice; this is one degree
Degree == 1000000

\* the boxes enumerated: two-dimensional, with sides of a few millionths of
\* a degree or of one degree
Sides == (1..MaxSide) \cup {Degree}

Boxes ==
    { [min_x |-> x, max_x |-> x + w, min_y |-> y, max_y |-> y + h] :
        x \in {-Degree, 0}, y \in {-Degree, 0}, w \in Sides, h \in Sides }

\* lines 84-92
width(box) == box.max_x - box.min_x
height(box) == box.max_y - box.min_y

\* round(Decimal(num / den), 6) for den > 0, in millionths: Decimal.__round__
\* rounds to the nearest and a tie to the even neighbour.  The quotients
\* are kept exact: with 28 significant digits the Decimal quotient is off
\* the exact one only when the divisor has a prime factor other than 2 and
\* 5, and for divisors up to 5 no such quotient lies on a tie.
RoundHalfEven(num, den) ==
    LET q == num \div den
        r == num % den
    IN  IF 2 * r < den THEN q
        ELSE IF 2 * r > den THEN q + 1
        ELSE IF q % 2 = 0 THEN q
        ELSE q + 1

\* lines 252-272: validate_coords
ValidCoords(box) == box.min_x < box.max_x /\ box.min_y < box.max_y

\* lines 178-190: slice i, j; slice_width = width / x_into and
\* slice_min_x = min_x + i * slice_width, and so for y
Slice(box, x_into, y_into, i, j) ==
    [min_x |-> RoundHalfEven(box.min_x * x_into + i * width(box), x_into),
     max_x |-> RoundHalfEven(box.min_x * x_into + (i + 1) * width(box), x_into),
     min_y |-> RoundHalfEven(box.min_y * y_into + j * height(box), y_into),
     max_y |-> RoundHalfEven(box.min_y * y_into + (j + 1) * height(box), y_into)]

\* lines 140-193: ValueError for a count that is not positive; the slices
\* in the order of the two loops, x outermost; a slice that validate_coords
\* rejects raises pydantic's ValidationError, a ValueError
split_along_axes(box, x_into, y_into) ==
    IF x_into <= 0 \/ y_into <= 0 THEN Raises("ValueError")
    ELSE LET made == [k \in 1..(x_into * y_into) |->
                         Slice(box, x_into, y_into,
                               (k - 1) \div y_into, (k - 1) % y_into)]
         IN  IF \E k \in 1..Len(made) : ~ValidCoords(made[k])
             THEN Raises("ValueError")
             ELSE Returns(made)

InitSplit ==
    /\ locations_df = <<>>
    /\ distances_df = <<>>
    /\ NoCall
    /\ NoComputeRoutes
    /\ NoAnalysis
    /\ config = <<>>
    /\ configured = NotCalled
    /\ bbox \in Boxes
    /\ into \in [x : 0..MaxInto, y : 0..MaxInto]
    /\ slices = NotCalled

SplitAlongAxes ==
    /\ bbox # <<>>
    /\ ~slices.called
    /\ slices' = split_along_axes(bbox, into.x, into.y)
    /\ UNCHANGED <<call_vars, outer, analysis, config, configured, bbox, into>>

SpecSplit == InitSplit /\ [][SplitAlongAxes]_vars

(* ----------------------------- properties ------------------------------ *)
Stage2Calls == { k \in 1..Len(solver_calls) : solver_calls[k].stage = 2 }

RECURSIVE SetSum(_, _)
SetSum(S, f) ==
    IF S = {} THEN 0
    ELSE LET x == CHOOSE y \in S : TRUE IN f[x] + SetSum(S \ {x}, f)

\* the physical locations on stage-1 route grp, and their total dropoff demand
RouteStops(grp) ==
    { pickups_only_df.df[r].Original_Index :
        r \in { q \in 1..Len(pickups_only_df.df) : pickups_only_df.df[q].Route = grp } }

RouteDropoffTotal(grp) ==
    SetSum(RouteStops(grp),
           [i \in RouteStops(grp) |-> At(locations_df, i).Weekly_Dropoff_Totes])

\* C1: in every combined route returned, the load recorded after each stop
\* (Truck_Load) is at least 0 and at most the combo-stage vehicle capacity.
C1_LoadWithinCapacity ==
    (pc = "returned" /\ result.some) =>
        \A r \in 1..Len(result.df) :
            /\ result.df[r].Truck_Load >= 0
            /\ result.df[r].Truck_Load <= combo_params.vehicle_capacity

\* C1 witness: a returned table with a delivery that empties the vehicle and
\* a stop at which the vehicle is full.
C1_Witness ==
    /\ pc = "returned" /\ result.some
    /\ \E r \in 1..Len(result.df) :
           result.df[r].Capacity < 0 /\ result.df[r].Truck_Load = 0
    /\ \E r \in 1..Len(result.df) :
           result.df[r].Truck_Load = combo_params.vehicle_capacity

C3_CombinedMatrixMapsPhysical ==
    \A k \in Stage2Calls :
        LET c == solver_calls[k]
            m == c.distance_matrix
        IN  \A i, j \in 1..Len(c.locations) :
                /\ i <= Len(m)
                /\ j <= Len(m[i])
                /\ m[i][j] = At(At(distances_df, c.locations[i].index),
                                c.locations[j].index)

\* C4: the matrix passed to every stage-2 solve is square and has one row
\* and one column per node of the combined location list.
C4_CombinedMatrixSquare ==
    \A k \in Stage2Calls :
        LET c == solver_calls[k]
        IN  /\ Len(c.distance_matrix) = Len(c.locations)
            /\ \A i \in 1..Len(c.distance_matrix) :
                   Len(c.distance_matrix[i]) = Len(c.locations)

\* the stops of sub-route id of a table, in visiting order
RowsOfRoute(df, id) == SelectSeq(df, LAMBDA row : row.Route = id)

\* a Dropoff-role stop is a row of the duplicated sites: its Capacity is
\* negative; every other row is the depot or a Pickup-role stop
IsDropoffRole(row) == row.Capacity < 0

\* pickup demand collected at stops 1 .. t of a route, and dropoff demand
\* delivered at stops 1 .. t
RECURSIVE PickedUp(_, _)
PickedUp(rows, t) ==
    IF t = 0 THEN 0
    ELSE PickedUp(rows, t - 1)
         + (IF IsDropoffRole(rows[t]) THEN 0 ELSE rows[t].Daily_Pickup_Totes)

RECURSIVE Delivered(_, _)
Delivered(rows, t) ==
    IF t = 0 THEN 0
    ELSE Delivered(rows, t - 1)
         + (IF IsDropoffRole(rows[t]) THEN rows[t].Weekly_Dropoff_Totes ELSE 0)

SucceededCalls == { k \in Stage2Calls : solver_calls[k].outcome = "routes" }

FailedCalls == { k \in Stage2Calls : solver_calls[k].outcome = "none" }

TaggedRows(df, grp, num_vehicles) ==
    SelectSeq(df, LAMBDA row : \E v \in 0..(num_vehicles - 1) : row.Route = Tag(grp, v))

\* C6: a stage-2 solve without a solution does not end the call (the loop
\* goes on while routes are pending, and the call never raises on it); the
\* value returned holds the tagged sub-routes of every stage-1 route whose
\* stage-2 solve gave routes, wherever the failing route comes in the order.
C6_FailureKeepsOtherRoutes ==
    (FailedCalls # {}) =>
        /\ Len(solver_calls) \in FailedCalls =>
               pc = (IF pending = <<>> THEN "returned" ELSE "stage2")
        /\ pc = "returned" =>
               \A k \in SucceededCalls :
                   LET c == solver_calls[k]
                       mine == IF result.some
                               THEN TaggedRows(result.df, c.grp, c.num_vehicles)
                               ELSE <<>>
                   IN  /\ Len(mine) = Len(c.returned)
                       /\ \A r \in 1..Len(mine) :
                              mine[r] = [c.returned[r] EXCEPT
                                            !.Route = Tag(c.grp, c.returned[r].Route)]

\* C6 witness: the call has returned, one stage-2 solve failed and another
\* gave routes.
C6_Witness ==
    /\ pc = "returned"
    /\ FailedCalls # {}
    /\ SucceededCalls # {}
    /\ result.some

\* C7: the value returned reports as skipped exactly the stage-1 routes
\* whose stage-2 solve gave no solution.
C7_SkippedRoutesReported ==
    pc = "returned" =>
        SkippedRouteIds(result) = { solver_calls[k].grp : k \in FailedCalls }

\* C8: when the pickups-only solve gives no solution, the call returns None
\* and no stage-2 solve is made.
C8_StageOneFailureEndsCall ==
    (solver_calls # <<>> /\ solver_calls[1].outcome = "none") =>
        /\ pc = "returned"
        /\ result = None
        /\ Stage2Calls = {}
        /\ Len(solver_calls) = 1

\* C8 witness: the pickups-only solve has been made and gave no solution.
C8_Witness ==
    /\ solver_calls # <<>>
    /\ solver_calls[1].stage = 1
    /\ solver_calls[1].outcome = "none"

\* C9: no two combined routes of the value returned carry the same
\* identifier: there are as many identifiers as sub-routes, and no
\* identifier has two rows with the same stop number.
C9_IdentifiersUnique ==
    (pc = "returned" /\ result.some) =>
        /\ Cardinality(RouteIds(result.df)) =
               Cardinality(SucceededCalls) * combo_params.num_vehicles
        /\ \A q, r \in 1..Len(result.df) :
               (result.df[q].Route = result.df[r].Route
                    /\ result.df[q].Stop = result.df[r].Stop) => q = r

\* C9 witness: two stage-1 routes, each split into two sub-routes.
C9_Witness ==
    /\ pc = "returned" /\ result.some
    /\ Cardinality(SucceededCalls) = 2
    /\ combo_params.num_vehicles = 2

\* C10: with a solver that answers the same problem with the same routes, a
\* second call with the same arguments ends as the first did and returns
\* the same table.
C10_SecondCallSameOutput ==
    (run = 2 /\ pc \in {"returned", "raised"}) =>
        first_run = [pc |-> pc, result |-> result]

\* C10 witness: the second call has returned a table of two stage-1 routes'
\* sub-routes.
C10_Witness ==
    /\ run = 2
    /\ pc = "returned"
    /\ result.some
    /\ Cardinality(SucceededCalls) = 2

\* the three Ranges of the sweep enumerated
SweepRanges ==
    {combo_sweep.num_vehicles, combo_sweep.vehicle_capacity, combo_sweep.simulation_runtime}

\* C11: once the generator has read them, the values of every Range of the
\* sweep (step >= 1, min <= max) are the progression min, min + step, ...
\* up to the last term that is at most max: they start at min, go up by
\* step, none exceeds max, and the next term would exceed max.
C11_ValuesStopAtMax ==
    sweep_pc # "new" =>
        \A r \in SweepRanges :
            LET vals == values(r)
            IN  /\ Len(vals) >= 1
                /\ vals[1] = r.min
                /\ \A k \in 1..(Len(vals) - 1) : vals[k + 1] = vals[k] + r.step
                /\ \A k \in 1..Len(vals) : vals[k] <= r.max
                /\ vals[Len(vals)] + r.step > r.max

\* the enumeration under way, or the last one finished
LastEnumeration == enumerations[Len(enumerations)]

\* C12: when the generator is used up, it has yielded as many
\* SimulationParams as the product of the lengths of the three value lists,
\* and each (runtime, vehicle count, capacity) triple of the lists exactly
\* once, each with the sweep's demand column.
C12_OneParamsPerTriple ==
    sweep_pc = "exhausted" =>
        LET e == LastEnumeration
            counts == values(combo_sweep.num_vehicles)
            caps == values(combo_sweep.vehicle_capacity)
            runtimes == values(combo_sweep.simulation_runtime)
        IN  /\ Len(e) = Len(counts) * Len(caps) * Len(runtimes)
            /\ \A t \in 1..Len(runtimes), n \in 1..Len(counts), c \in 1..Len(caps) :
                   Cardinality({ k \in 1..Len(e) :
                                   /\ e[k].runtime = runtimes[t]
                                   /\ e[k].num_vehicles = counts[n]
                                   /\ e[k].vehicle_capacity = caps[c] }) = 1
            /\ \A k \in 1..Len(e) : e[k].demand_column = combo_sweep.demand_column

\* C12 witness: a used-up generator of a sweep whose three lists have
\* different lengths, two of them longer than one.
C12_Witness ==
    /\ sweep_pc = "exhausted"
    /\ Len(values(combo_sweep.num_vehicles)) = 3
    /\ Len(values(combo_sweep.vehicle_capacity)) = 2
    /\ Len(values(combo_sweep.simulation_runtime)) = 1
    /\ Len(LastEnumeration) = 6

\* (runtime, vehicle count, capacity) of a comes before that of b, runtime
\* compared first and capacity last
ComesBefore(a, b) ==
    \/ a.runtime < b.runtime
    \/ a.runtime = b.runtime /\ a.num_vehicles < b.num_vehicles
    \/ /\ a.runtime = b.runtime
       /\ a.num_vehicles = b.num_vehicles
       /\ a.vehicle_capacity < b.vehicle_capacity

\* C13: every enumeration yields its SimulationParams in product order,
\* runtime outermost, then vehicle count, capacity innermost (the value
\* lists ascend, so later items are larger in that order); a second
\* enumeration of the same sweep yields what the first did, item by item.
C13_ProductOrderRestartable ==
    /\ \A n \in 1..Len(enumerations) :
           \A k \in 1..(Len(enumerations[n]) - 1) :
               ComesBefore(enumerations[n][k], enumerations[n][k + 1])
    /\ Len(enumerations) = 2 =>
           /\ Len(enumerations[2]) <= Len(enumerations[1])
           /\ \A k \in 1..Len(enumerations[2]) : enumerations[2][k] = enumerations[1][k]
           /\ sweep_pc = "exhausted" => enumerations[2] = enumerations[1]

\* C13 witness: the second enumeration of a sweep with two runtimes, two
\* vehicle counts and two capacities is used up.
C13_Witness ==
    /\ sweep_pc = "exhausted"
    /\ Len(enumerations) = 2
    /\ Len(values(combo_sweep.num_vehicles)) = 2
    /\ Len(values(combo_sweep.vehicle_capacity)) = 2
    /\ Len(values(combo_sweep.simulation_runtime)) = 2
    /\ Len(enumerations[2]) = 8

\* the rows of a sub-problem's location list for physical location i, the
\* depot row that opens the list apart
NodesOf(locations, i) == { r \in 2..Len(locations) : locations[r].index = i }

\* C14: the location list of every stage-2 sub-problem is the depot, then
\* for each non-depot stop of the route one Pickup-role node whose Capacity
\* is the stop's pickup demand, and for each stop with a dropoff demand
\* above 0 one Dropoff-role node whose Capacity is minus that demand; it
\* holds no other node.
C14_NodeListIsStopsAndDropoffs ==
    \A k \in Stage2Calls :
        LET c == solver_calls[k]
            stops == RouteStops(c.grp) \ {Depot}
            sites == { i \in stops : At(locations_df, i).Weekly_Dropoff_Totes > 0 }
        IN  /\ c.locations[1].index = Depot
            /\ Len(c.locations) = 1 + Cardinality(stops) + Cardinality(sites)
            /\ \A i \in stops :
                   Cardinality({ r \in NodesOf(c.locations, i) :
                       c.locations[r].Capacity = At(locations_df, i).Daily_Pickup_Totes }) = 1
            /\ \A i \in sites :
                   Cardinality({ r \in NodesOf(c.locations, i) :
                       c.locations[r].Capacity =
                           (-1) * At(locations_df, i).Weekly_Dropoff_Totes }) = 1
            /\ \A i \in stops \ sites : Cardinality(NodesOf(c.locations, i)) = 1

\* C15: the demands handed to the solver in every stage-2 call are the
\* Capacity values of the sub-problem's location list, whatever demand
\* column the combo parameters name.
C15_StageTwoDemandIsCapacity ==
    \A k \in Stage2Calls :
        solver_calls[k].demands = Column(solver_calls[k].locations, CapacityCol)

\* the arguments break a rule of the input: the matrix is not square, its
\* dimension is not the number of locations, a distance is negative, or a
\* demand is negative
InvalidInput ==
    \/ \E r \in 1..Len(distances_df) : Len(distances_df[r]) # Len(distances_df)
    \/ Len(distances_df) # Len(locations_df)
    \/ \E r \in 1..Len(distances_df) : \E c \in 1..Len(distances_df[r]) :
           distances_df[r][c] < 0
    \/ \E r \in 1..Len(locations_df) :
           locations_df[r].Daily_Pickup_Totes < 0 \/ locations_df[r].Weekly_Dropoff_Totes < 0

\* C16: on invalid input the call is rejected before any solve: no stage-1
\* or stage-2 solver call is ever made, and the call returns nothing.
C16_InvalidInputRejected ==
    InvalidInput => (solver_calls = <<>> /\ pc # "returned")

\* compute_routes has just finished a simulation: the call has returned
\* and its files are written; pickup_params, combo_params and result are
\* still those of that simulation
JustFinished ==
    /\ sweep_pc = "inner"
    /\ pc = "idle"
    /\ enumerations # <<>>
    /\ LastEnumeration # <<>>

\* the files written by simulation k, in order
FilesOf(k) == SelectSeq(storage, LAMBDA w : w.sim = k)

\* C17: a simulation for which the call returned None has written its
\* metadata, with 0 routes, into its directory and nothing else (no routes
\* file), and compute_routes is at the head of the inner loop again; when
\* compute_routes returns, every combination of the two sweeps has been
\* executed and has its metadata, the ones after a None included.
C17_NoSolutionKeepsSweeping ==
    /\ (JustFinished /\ ~result.some) =>
           LET mine == FilesOf(Started)
           IN  /\ Len(mine) = 1
               /\ mine[1].kind = "metadata"
               /\ mine[1].file = <<"metadata.json">>
               /\ mine[1].dir = strftime(sim_started_utc)
               /\ mine[1].content.Num_Routes_Generated = 0
    /\ (sweep_pc = "raised") =>
           (solver_calls # <<>> /\ solver_calls[Len(solver_calls)].outcome = "raised")
    /\ sweep_pc = "done" =>
           /\ Len(enumerations) = Len(yield_simulation_params(pickups_sweep))
           /\ \A n \in 1..Len(enumerations) :
                  enumerations[n] = yield_simulation_params(combo_sweep)
           /\ \A k \in 1..Started :
                  \E w \in 1..Len(storage) :
                      storage[w].sim = k /\ storage[w].kind = "metadata"

\* C17 witness: compute_routes has returned after four simulations, the
\* first without a solution and a later one with routes.
C17_Witness ==
    /\ sweep_pc = "done"
    /\ Started = 4
    /\ Len(FilesOf(1)) = 1
    /\ FilesOf(1)[1].content.Num_Routes_Generated = 0
    /\ \E k \in 2..4 : Len(FilesOf(k)) > 1

\* C18: no two simulations of one run of compute_routes write into the
\* same directory, and so no file of a simulation is written again by a
\* later one.
C18_OwnDirectoryPerSimulation ==
    \A v, w \in 1..Len(storage) :
        (storage[v].sim # 0 /\ storage[w].sim # 0 /\ storage[v].sim # storage[w].sim)
            => storage[v].dir # storage[w].dir

\* C19: the metadata of the simulation just finished records, for the
\* pickup-only stage and for the combined stage, the number of vehicles,
\* the capacity and the runtime of the SimulationParams handed to the
\* solver, and as route count the number of distinct route ids returned.
C19_MetadataRecordsParameters ==
    JustFinished =>
        LET metadata == FilesOf(Started)[1].content
            pickup == metadata.Pickup_Only_Parameters
            combo == metadata.Combined_Pickup_Dropoff_Parameters
        IN  /\ pickup.Number_of_Vehicles = pickup_params.num_vehicles
            /\ pickup.Vehicle_Capacity = pickup_params.vehicle_capacity
            /\ pickup.Simulation_Runtime_Seconds = pickup_params.runtime
            /\ combo.Number_of_Vehicles = combo_params.num_vehicles
            /\ combo.Vehicle_Capacity = combo_params.vehicle_capacity
            /\ combo.Simulation_Runtime_Seconds = combo_params.runtime
            /\ metadata.Num_Routes_Generated =
                   (IF result.some THEN Cardinality(RouteIds(result.df)) ELSE 0)

\* the numeric columns of the summary
SummaryColumns ==
    {"Pickup_Demands", "Pickup_Estimated_Cups", "Dropoff_Demands",
     "Dropoff_Estimated_Cups", "Cumulative_Distances"}

\* C20: on a routes table with at least one route sensitivity_analysis does
\* not raise, and when it is done the last row of the summary is named
\* Totals and holds, in every numeric column, the sum of the entries of the
\* routes above it.
C20_TotalsRowSumsRoutes ==
    routes # <<>> =>
        /\ analysis_pc # "raised"
        /\ analysis_pc = "done" =>
               LET n == Len(res_dict.Route_Names)
               IN  /\ n = Len(Unique(Column(routes, "Route"), {})) + 1
                   /\ res_dict.Route_Names[n] = <<"Totals">>
                   /\ \A col \in SummaryColumns :
                          /\ Len(res_dict[col]) = n
                          /\ res_dict[col][n] = SumSeq(SubSeq(res_dict[col], 1, n - 1))

\* C21: every route row of the summary holds, as estimated pickup units, 50
\* times the route's pickup demand total and, as estimated dropoff units,
\* 250 times the route's dropoff demand total.
C21_EstimateIsMultipleOfSameDemand ==
    \A k \in 1..Len(res_dict.Route_Names) :
        res_dict.Route_Names[k] # <<"Totals">> =>
            /\ res_dict.Pickup_Estimated_Cups[k] = 50 * res_dict.Pickup_Demands[k]
            /\ res_dict.Dropoff_Estimated_Cups[k] = 250 * res_dict.Dropoff_Demands[k]

Attempted == { solver_calls[k].grp : k \in Stage2Calls }

\* C23: in a call with a feasible stage 1 the first solver call is the
\* stage-1 call and every stage-2 call comes after it; no stage-1 route
\* gets two stage-2 calls; the loop goes on while a route is left, also past
\* a route without a stage-2 solution; and the call returns exactly when
\* every stage-1 route has had its stage-2 call.
C23_OneStageTwoCallPerRoute ==
    /\ \A k \in Stage2Calls :
           /\ k > 1
           /\ solver_calls[1].stage = 1 /\ solver_calls[1].outcome = "routes"
           /\ solver_calls[k].grp \in RouteIds(pickups_only_df.df)
    /\ \A j, k \in Stage2Calls : solver_calls[j].grp = solver_calls[k].grp => j = k
    /\ pickups_only_df.some =>
           /\ pc = "stage2" =>
                  /\ pending # <<>>
                  /\ Attempted # RouteIds(pickups_only_df.df)
                  /\ \A i \in 1..Len(pending) : pending[i] \notin Attempted
           /\ pc = "returned" =>
                  /\ pending = <<>>
                  /\ Attempted = RouteIds(pickups_only_df.df)

\* C23 witness: a call over two stage-1 routes has returned; the first
\* route had no stage-2 solution and the second was solved after it.
C23_Witness ==
    /\ pc = "returned"
    /\ Len(solver_calls) = 3
    /\ solver_calls[2].outcome = "none"
    /\ solver_calls[3].outcome = "routes"
    /\ solver_calls[2].grp # solver_calls[3].grp

\* the rows of a result, as a set
RowSet(res) == { res.df[r] : r \in 1..Len(res.df) }

\* C24: with one solver answer per problem, a call that takes the stage-1
\* routes in any order ends as the call that took them in ascending order
\* did, with the same set of tagged combined-route rows.
C24_AnyOrderSameRoutes ==
    (run = 2 /\ pc \in {"returned", "raised"}) =>
        /\ first_run.pc = pc
        /\ first_run.result.some = result.some
        /\ RowSet(first_run.result) = RowSet(result)

\* C24 witness: the second call took two stage-1 routes in descending
\* order and both had a stage-2 solution.
C24_Witness ==
    /\ run = 2
    /\ pc = "returned"
    /\ Len(solver_calls) = 3
    /\ solver_calls[2].grp > solver_calls[3].grp
    /\ solver_calls[2].outcome = "routes"
    /\ solver_calls[3].outcome = "routes"
    /\ result # first_run.result

\* the expected keys a configuration lacks: top-level keys, and fields of
\* the ranges it has
LacksExpectedKey(cfg) ==
    \/ \E i \in 1..Len(SweepKeys) : SweepKeys[i] \notin DOMAIN cfg
    \/ \E name \in RangeNames \cap DOMAIN cfg : DOMAIN cfg[name] # RangeFields

\* C25: from_config called on a configuration that lacks an expected key
\* (name, place_capacity_column, one of the three ranges, or min, max or
\* step inside a range) raises ValueError.
C25_MissingKeyRaisesValueError ==
    (configured.called /\ LacksExpectedKey(config)) => configured.raised = "ValueError"

\* C26: split_along_axes with x_into >= 1 and y_into >= 1 returns
\* x_into * y_into boxes, each as wide as the original width divided by
\* x_into and as high as the original height divided by y_into (so, for
\* y_into = 1, n slices of the original height).
C26_SlicesDivideTheBox ==
    (slices.called /\ into.x >= 1 /\ into.y >= 1) =>
        /\ slices.raised = ""
        /\ Len(slices.value) = into.x * into.y
        /\ \A k \in 1..Len(slices.value) :
               /\ width(slices.value[k]) * into.x = width(bbox)
               /\ height(slices.value[k]) * into.y = height(bbox)

\* the rows of the result that show location i in the given role
StopsAt(i, dropoff_role) ==
    { r \in 1..Len(result.df) :
        /\ result.df[r].Original_Index = i
        /\ IsDropoffRole(result.df[r]) = dropoff_role }

\* C27: when a call returns after a feasible stage 1 and no stage-2 solve
\* without a solution, every location but the depot is a Pickup-role stop
\* of exactly one combined route, and every location with a dropoff demand
\* is a Dropoff-role stop of exactly one combined route.
C27_CombinedRoutesCoverExactly ==
    (pc = "returned" /\ pickups_only_df.some /\ FailedCalls = {}) =>
        /\ result.some
        /\ \A i \in 1..NumStops : Cardinality(StopsAt(i, FALSE)) = 1
        /\ \A i \in 0..NumStops :
               At(locations_df, i).Weekly_Dropoff_Totes > 0 =>
                   Cardinality(StopsAt(i, TRUE)) = 1

\* C27 witness: a call over two stage-1 routes has returned, both stage-2
\* solves found routes, and two locations have a dropoff demand.
C27_Witness ==
    /\ pc = "returned"
    /\ Cardinality(SucceededCalls) = 2
    /\ FailedCalls = {}
    /\ Cardinality({ i \in 1..NumStops :
                       At(locations_df, i).Weekly_Dropoff_Totes > 0 }) = 2
    /\ \A i \in 1..NumStops : StopsAt(i, TRUE) # {}

\* C28: a call returns None only when its stage-1 solve had no solution.
C28_NoneOnlyWhenStageOneInfeasible ==
    (pc = "returned" /\ ~result.some) =>
        /\ Len(solver_calls) = 1
        /\ solver_calls[1].stage = 1
        /\ solver_calls[1].outcome = "none"

\* the physical locations a combined route of the result visits
VisitedBy(key) ==
    { result.df[r].Original_Index :
        r \in { q \in 1..Len(result.df) : result.df[q].Route = key } }

\* C29: in the statistics of a simulation that found routes, the Pickup
\* Demands and the Dropoff Demands of a combined route are at most the sum,
\* over the physical locations the route visits, of the location's demand
\* of that kind: no location is counted twice.
C29_StatsCountLocationOnce ==
    (JustFinished /\ result.some) =>
        LET results == stats[Len(stats)].Results
        IN  \A k \in 1..Len(results) :
                LET visited == VisitedBy(results[k].Route_Name)
                IN  /\ results[k].Pickup_Demands <=
                           SetSum(visited, [i \in visited |->
                                      At(locations_df, i).Daily_Pickup_Totes])
                    /\ results[k].Dropoff_Demands <=
                           SetSum(visited, [i \in visited |->
                                      At(locations_df, i).Weekly_Dropoff_Totes])

\* C30: every stage-2 solve is made for a stage-1 route with a stop other
\* than the depot; the route depot -> depot of a vehicle that stage 1 left
\* unused gets no stage-2 sub-problem, hence no combined route.
C30_NoStageTwoForUnusedVehicle ==
    \A k \in Stage2Calls :
        \E r \in 1..Len(pickups_only_df.df) :
            /\ pickups_only_df.df[r].Route = solver_calls[k].grp
            /\ pickups_only_df.df[r].Original_Index # Depot

=============================================================================
